---- MODULE Spec2Model ----
(***************************************************************************)
(* Leave-balance and salary ledgers of the Employee Management System      *)
(* backend (src/src/service/leave.service.ts, the SalaryService in         *)
(* src/src/constant/env.constant.ts, and the Mongoose schemas under        *)
(* src/src/model).                                                         *)
(*                                                                         *)
(* Each service method is a handler that awaits one store operation after  *)
(* the other.  A handler is modelled as a step function: one step is one   *)
(* store operation together with the local code that follows it up to the  *)
(* next await.  The sequential specifications run a handler to completion  *)
(* in one action; the concurrent specifications interleave the steps of    *)
(* several handlers.                                                       *)
(*                                                                         *)
(* Day counts are kept in half-day units (totalDays may be 0.5): a stored  *)
(* count n stands for n/2 days.  Dates are whole days numbered from the    *)
(* day before today.  Money is kept in hundredths where it is rounded.     *)
(***************************************************************************)
EXTENDS Integers, Sequences, FiniteSets, TLC

VARIABLES leaves, balances, salaries, calls, last

vars == <<leaves, balances, salaries, calls, last>>

(***************************************************************************)
(* Bounds of the model.                                                    *)
(***************************************************************************)
MaxLeaves == 2

MaxSalaries == 2

(***************************************************************************)
(* Program constants.                                                      *)
(***************************************************************************)
CasualTotal == 12

SickTotal == 10

PaidTotal == 15

MinYear == 2020

\* new Date().getFullYear(): the calendar year in which the handlers run.
ThisYear == 2026

\* today.setHours(0, 0, 0, 0): dates are day numbers, today is day 1, day 0
\* is yesterday.
Today == 1

\* The last day number that falls in ThisYear; later days are next year's.
LastDayOfYear == 14

Null == [null |-> TRUE]

Employees == {"e1", "e2"}

Reviewers == {"hr1"}

BalanceKeys == {"casual", "sick", "paid"}

LeaveTypes == {"casual", "sick", "paid", "unpaid", "maternity", "paternity"}

Years == {ThisYear, ThisYear + 1}

Ok == [kind |-> "ok", msg |-> "ok"]

Err(kind, msg) == [kind |-> kind, msg |-> msg]


\* Date.getFullYear() of a day number.
FullYear(d) == IF d <= LastDayOfYear THEN ThisYear ELSE ThisYear + 1

\* The store: what the three collections hold.
DB == [leaves |-> leaves, balances |-> balances, salaries |-> salaries]

(***************************************************************************)
(* LeaveBalance schema: defaults, validators, pre('save') hook, save.      *)
(***************************************************************************)
Entitlement(total) == [total |-> 2 * total, used |-> 0, remaining |-> 2 * total]

\* The document leaveBalanceModel.create({userId, year}) builds from the
\* schema defaults, before validation and the pre('save') hook.
DefaultBalance ==
    [casual |-> Entitlement(CasualTotal),
     sick   |-> Entitlement(SickTotal),
     paid   |-> Entitlement(PaidTotal)]

\* Schema validators (min: 0 on every counter, min: 2020 on year).  Mongoose
\* runs them on save() before the pre('save') hooks, on every path of the
\* document, loaded or modified.
BalanceValid(doc, year) ==
    /\ year >= MinYear
    /\ \A k \in BalanceKeys :
          doc[k].total >= 0 /\ doc[k].used >= 0 /\ doc[k].remaining >= 0

PreSaveBalanceNoRecompute(doc) == doc

\* leaveBalanceSchema.pre('save'): remaining = total - used for each type.
PreSaveBalance(doc) ==
    [k \in BalanceKeys |-> [doc[k] EXCEPT !.remaining = doc[k].total - doc[k].used]]

\* save() of a loaded document writes ($set) the paths whose value differs
\* from the loaded one; the other paths keep what the store holds.
MergeBalance(stored, loaded, doc) ==
    [k \in BalanceKeys |->
        [f \in {"total", "used", "remaining"} |->
            IF doc[k][f] # loaded[k][f] THEN doc[k][f] ELSE stored[k][f]]]

(***************************************************************************)
(* Leave schema and queries.                                               *)
(***************************************************************************)
\* totalDays in half-day units: 0.5 for a half day, else
\* ceil(|end - start| / one day) + 1.
TotalDays(start, end, isHalfDay) ==
    IF isHalfDay THEN 1
    ELSE 2 * ((IF end >= start THEN end - start ELSE start - end) + 1)

OverlapsExclusive(l, userId, start, end) ==
    /\ l.userId = userId
    /\ l.status \in {"pending", "approved"}
    /\ l.startDate < end
    /\ l.endDate > start

\* The filter of the overlap query: same user, status pending or approved,
\* startDate <= end and endDate >= start.
Overlaps(l, userId, start, end) ==
    /\ l.userId = userId
    /\ l.status \in {"pending", "approved"}
    /\ l.startDate <= end
    /\ l.endDate >= start

FindOverlap(ls, userId, start, end) ==
    \E i \in 1..Len(ls) : Overlaps(ls[i], userId, start, end)

(***************************************************************************)
(* Handlers as step functions.  A call is a record: op, pc (the store      *)
(* operation it awaits next, "done" once it has returned or thrown), its   *)
(* arguments, its local variables and res, what it returned or threw.      *)
(* A step maps (store, call) to (store, call).                             *)
(***************************************************************************)
Done(db, c, res) == [db |-> db, c |-> [c EXCEPT !.pc = "done", !.res = res]]

Goto(db, c, pc) == [db |-> db, c |-> [c EXCEPT !.pc = pc]]

\* leaveBalanceModel.findOne({userId, year})
BalanceOf(bals, userId, year) ==
    IF <<userId, year>> \in DOMAIN bals THEN bals[<<userId, year>>] ELSE Null

\* An insert into a balance collection without the unique index.
CreateBalanceNoIndex(db, userId, year) ==
    IF ~BalanceValid(DefaultBalance, year)
    THEN [ok |-> FALSE, err |-> Err("ValidationError", "balance"), db |-> db]
    ELSE [ok |-> TRUE, err |-> Ok,
          db |-> [db EXCEPT !.balances[<<userId, year>>] = PreSaveBalance(DefaultBalance)]]

\* leaveBalanceModel.create({userId, year}): schema defaults, validation,
\* pre('save') hook, insert; the unique index {userId, year} refuses a
\* second document with a duplicate-key error.
CreateBalance(db, userId, year) ==
    IF ~BalanceValid(DefaultBalance, year)
    THEN [ok |-> FALSE, err |-> Err("ValidationError", "balance"), db |-> db]
    ELSE IF BalanceOf(db.balances, userId, year) # Null
    THEN [ok |-> FALSE, err |-> Err("MongoServerError", "duplicateKey"), db |-> db]
    ELSE [ok |-> TRUE, err |-> Ok,
          db |-> [db EXCEPT !.balances[<<userId, year>>] = PreSaveBalance(DefaultBalance)]]

\* The auditLogModel.create call that ends every mutating handler: it is
\* awaited outside any try/catch, so a failed write is thrown to the caller.
\* audit records what became of the write: "written" or "failed".
AuditStep(db, c) ==
    IF c.auditOk
    THEN Done(db, [c EXCEPT !.audit = "written"], Ok)
    ELSE Done(db, [c EXCEPT !.audit = "failed"], Err("StoreError", "audit"))

\* A balance check that debits the days at application.
ApplyCheckBalanceDebiting(db, c, bal) ==
    IF c.leaveType \notin BalanceKeys
    THEN Done(db, c, Err("TypeError", "balanceKey"))
    ELSE IF bal[c.leaveType].remaining < TotalDays(c.start, c.end, c.isHalfDay)
    THEN Done(db, c, Err("BadRequest", "insufficient"))
    ELSE Goto([db EXCEPT !.balances[<<c.userId, ThisYear>>] =
                    PreSaveBalance([bal EXCEPT ![c.leaveType].used =
                        @ + TotalDays(c.start, c.end, c.isHalfDay)])],
              c, "createLeave")

\* applyLeave, lines 77-83: the balance check on the current year's balance.
ApplyCheckBalance(db, c, bal) ==
    IF c.leaveType \notin BalanceKeys
    THEN Done(db, c, Err("TypeError", "balanceKey"))
    ELSE IF bal[c.leaveType].remaining < TotalDays(c.start, c.end, c.isHalfDay)
    THEN Done(db, c, Err("BadRequest", "insufficient"))
    ELSE Goto(db, c, "createLeave")

NewLeave(c) ==
    [userId     |-> c.userId,
     leaveType  |-> c.leaveType,
     startDate  |-> c.start,
     endDate    |-> c.end,
     totalDays  |-> TotalDays(c.start, c.end, c.isHalfDay),
     isHalfDay  |-> c.isHalfDay,
     status     |-> "pending",
     reviewedBy |-> "none"]

ApplyLeaveStep(db, c) ==
    CASE c.pc = "findOverlap" ->
            IF c.start < Today
            THEN Done(db, c, Err("BadRequest", "past"))
            ELSE IF c.end < c.start
            THEN Done(db, c, Err("BadRequest", "endBeforeStart"))
            ELSE IF c.isHalfDay /\ ~c.halfDayPeriod
            THEN Done(db, c, Err("BadRequest", "halfDayPeriod"))
            ELSE IF FindOverlap(db.leaves, c.userId, c.start, c.end)
            THEN Done(db, c, Err("BadRequest", "overlap"))
            ELSE IF c.leaveType # "unpaid"
            THEN Goto(db, c, "findBalance")
            ELSE Goto(db, c, "createLeave")
      [] c.pc = "findBalance" ->
            LET bal == BalanceOf(db.balances, c.userId, ThisYear)
            IN  IF bal = Null
                THEN Goto(db, c, "createBalance")
                ELSE ApplyCheckBalance(db, c, bal)
      [] c.pc = "createBalance" ->
            LET r == CreateBalance(db, c.userId, ThisYear)
            IN  IF ~r.ok
                THEN Done(db, c, r.err)
                ELSE ApplyCheckBalance(r.db, c, r.db.balances[<<c.userId, ThisYear>>])
      [] c.pc = "createLeave" ->
            Goto([db EXCEPT !.leaves = Append(db.leaves, NewLeave(c))],
                 [c EXCEPT !.id = Len(db.leaves) + 1], "audit")
      [] c.pc = "audit" -> AuditStep(db, c)

GetLeaveBalanceStep(db, c) ==
    LET targetYear == IF c.year = 0 THEN ThisYear ELSE c.year
    IN  CASE c.pc = "findBalance" ->
                IF BalanceOf(db.balances, c.userId, targetYear) = Null
                THEN Goto(db, c, "createBalance")
                ELSE Done(db, c, Ok)
          [] c.pc = "createBalance" ->
                LET r == CreateBalance(db, c.userId, targetYear)
                IN  Done(r.db, c, r.err)

\* leaveModel.findById
FindLeave(ls, id) == IF id \in 1..Len(ls) THEN ls[id] ELSE Null

\* leave.save() after the handler set status (and the reviewer): the
\* modified paths are written to the stored document.
SaveLeave(db, id, status, reviewer) ==
    [db EXCEPT !.leaves[id] =
        [@ EXCEPT !.status = status,
                  !.reviewedBy = IF reviewer = "none" THEN @ ELSE reviewer]]

\* findOne of the (employee, start-date year) balance in approveLeave and
\* cancelLeave; a missing balance is skipped.
FindBalanceStep(db, c, next) ==
    LET l   == db.leaves[c.id]
        bal == BalanceOf(db.balances, l.userId, FullYear(l.startDate))
    IN  IF bal = Null
        THEN Goto(db, c, next)
        ELSE IF l.leaveType \notin BalanceKeys
        THEN Done(db, c, Err("TypeError", "balanceKey"))
        ELSE Goto(db, [c EXCEPT !.bal = bal], "saveBalance")

\* leaveBalance[balanceKey].used += delta; await leaveBalance.save()
SaveBalanceStep(db, c, delta, next) ==
    LET l      == db.leaves[c.id]
        key    == <<l.userId, FullYear(l.startDate)>>
        doc    == [c.bal EXCEPT ![l.leaveType].used = @ + delta]
    IN  IF ~BalanceValid(doc, key[2])
        THEN Done(db, c, Err("ValidationError", "balance"))
        ELSE Goto([db EXCEPT !.balances[key] =
                        MergeBalance(@, c.bal, PreSaveBalance(doc))],
                  c, next)

\* A review that does not look at the request's status.
ReviewFindLeaveAnyStatus(db, c) ==
    IF FindLeave(db.leaves, c.id) = Null
    THEN Done(db, c, Err("NotFound", "leave"))
    ELSE Goto(db, c, "saveLeave")

\* approveLeave and rejectLeave, the lookup and the two checks that follow.
ReviewFindLeave(db, c) ==
    LET l == FindLeave(db.leaves, c.id)
    IN  IF l = Null
        THEN Done(db, c, Err("NotFound", "leave"))
        ELSE IF l.status # "pending"
        THEN Done(db, c, Err("BadRequest", "already"))
        ELSE Goto(db, c, "saveLeave")

ApproveLeaveStep(db, c) ==
    CASE c.pc = "findLeave" -> ReviewFindLeave(db, c)
      [] c.pc = "saveLeave" ->
            Goto(SaveLeave(db, c.id, "approved", c.reviewerId), c,
                 IF db.leaves[c.id].leaveType # "unpaid" THEN "findBalance" ELSE "audit")
      [] c.pc = "findBalance" -> FindBalanceStep(db, c, "audit")
      [] c.pc = "saveBalance" ->
            SaveBalanceStep(db, c, db.leaves[c.id].totalDays, "audit")
      [] c.pc = "audit" -> AuditStep(db, c)

RejectLeaveStep(db, c) ==
    CASE c.pc = "findLeave" -> ReviewFindLeave(db, c)
      [] c.pc = "saveLeave" ->
            Goto(SaveLeave(db, c.id, "rejected", c.reviewerId), c, "audit")
      [] c.pc = "audit" -> AuditStep(db, c)

\* Checks that leave out the one on the owner.
CancelChecksNoOwner(l, userId) ==
    IF l.status = "cancelled" THEN Err("BadRequest", "alreadyCancelled")
    ELSE IF l.status = "rejected" THEN Err("BadRequest", "rejected")
    ELSE Ok

\* Checks that leave out the one on the status rejected.
CancelChecksNoRejected(l, userId) ==
    IF l.userId # userId THEN Err("Forbidden", "notOwner")
    ELSE IF l.status = "cancelled" THEN Err("BadRequest", "alreadyCancelled")
    ELSE Ok

\* cancelLeave, lines 349-359: the checks on the request found, in the
\* order of the code; Ok when all pass.
CancelChecks(l, userId) ==
    IF l.userId # userId THEN Err("Forbidden", "notOwner")
    ELSE IF l.status = "cancelled" THEN Err("BadRequest", "alreadyCancelled")
    ELSE IF l.status = "rejected" THEN Err("BadRequest", "rejected")
    ELSE Ok

CancelLeaveStep(db, c) ==
    CASE c.pc = "findLeave" ->
            LET l == FindLeave(db.leaves, c.id)
            IN  IF l = Null
                THEN Done(db, c, Err("NotFound", "leave"))
                ELSE IF CancelChecks(l, c.userId) # Ok
                THEN Done(db, c, CancelChecks(l, c.userId))
                ELSE IF l.status = "approved" /\ l.leaveType # "unpaid"
                THEN Goto(db, c, "findBalance")
                ELSE Goto(db, c, "saveLeave")
      [] c.pc = "findBalance" -> FindBalanceStep(db, c, "saveLeave")
      [] c.pc = "saveBalance" ->
            SaveBalanceStep(db, c, 0 - db.leaves[c.id].totalDays, "saveLeave")
      [] c.pc = "saveLeave" ->
            Goto(SaveLeave(db, c.id, "cancelled", "none"), c, "audit")
      [] c.pc = "audit" -> AuditStep(db, c)

(***************************************************************************)
(* The calls of the leave ledger and their arguments.                      *)
(***************************************************************************)
\* The applyLeave requests the employees submit: (userId, leaveType,
\* startDate, endDate, isHalfDay, halfDayPeriod given).
ApplyInputs ==
    { <<"e1", "casual",    1,  3,  FALSE, FALSE>>,   \* 3 days
      <<"e1", "casual",    4,  14, FALSE, FALSE>>,   \* 11 more days: 14 > 12
      <<"e1", "unpaid",    3,  4,  FALSE, FALSE>>,   \* shares a day with both
      <<"e2", "paid",      15, 15, TRUE,  TRUE>>,    \* half a day, next year
      <<"e1", "casual",    0,  1,  FALSE, FALSE>>,   \* starts yesterday
      <<"e2", "sick",      4,  3,  FALSE, FALSE>>,   \* ends before it starts
      <<"e2", "paid",      2,  2,  TRUE,  FALSE>>,   \* half day, no period
      <<"e2", "sick",      1,  11, FALSE, FALSE>>,   \* 11 days: 11 > 10
      <<"e1", "maternity", 15, 16, FALSE, FALSE>>,
      <<"e1", "paternity", 15, 16, FALSE, FALSE>> }

\* The getLeaveBalance requests: (userId, year), year 0 for "not given".
BalanceInputs == { <<"e2", 0>>, <<"e2", ThisYear + 1>>, <<"e2", MinYear - 1>> }

NewApplyLeave(in, auditOk) ==
    [op |-> "applyLeave", pc |-> "findOverlap", res |-> Ok, id |-> 0, args |-> in,
     userId |-> in[1], leaveType |-> in[2], start |-> in[3], end |-> in[4],
     isHalfDay |-> in[5], halfDayPeriod |-> in[6], auditOk |-> auditOk, audit |-> "none"]

NewGetLeaveBalance(userId, year) ==
    [op |-> "getLeaveBalance", pc |-> "findBalance", res |-> Ok, id |-> 0,
     args |-> <<userId, year>>,
     userId |-> userId, year |-> year]

NewApproveLeave(id, reviewerId, auditOk) ==
    [op |-> "approveLeave", pc |-> "findLeave", res |-> Ok, id |-> id, args |-> <<>>,
     reviewerId |-> reviewerId, bal |-> Null, auditOk |-> auditOk, audit |-> "none"]

NewRejectLeave(id, reviewerId, auditOk) ==
    [op |-> "rejectLeave", pc |-> "findLeave", res |-> Ok, id |-> id, args |-> <<>>,
     reviewerId |-> reviewerId, auditOk |-> auditOk, audit |-> "none"]

NewCancelLeave(id, userId, auditOk) ==
    [op |-> "cancelLeave", pc |-> "findLeave", res |-> Ok, id |-> id, args |-> <<userId>>,
     userId |-> userId, bal |-> Null, auditOk |-> auditOk, audit |-> "none"]

LeaveStep(db, c) ==
    CASE c.op = "applyLeave"      -> ApplyLeaveStep(db, c)
      [] c.op = "getLeaveBalance" -> GetLeaveBalanceStep(db, c)
      [] c.op = "approveLeave"    -> ApproveLeaveStep(db, c)
      [] c.op = "rejectLeave"     -> RejectLeaveStep(db, c)
      [] c.op = "cancelLeave"     -> CancelLeaveStep(db, c)

\* A handler run from a call's first step to its return, nothing interleaved.
RECURSIVE RunLeave(_, _)
RunLeave(db, c) ==
    IF c.pc = "done" THEN [db |-> db, c |-> c]
    ELSE LET r == LeaveStep(db, c) IN RunLeave(r.db, r.c)

\* What is remembered of the call that returned last: the operation, its
\* arguments (args: the request of applyLeave, the caller of cancelLeave;
\* id: the leave a review or a cancellation names, the leave an application
\* created), what it returned or threw and, for an approveLeave that loaded
\* a balance, the used counter of the request's type as loaded, before the
\* debit (-1 otherwise); mail: a salary-paid e-mail was sent; audit: what
\* became of the call's own audit write ("none": it made none); out: the
\* lists generateBulkSalaries returned.
Returned(db, c) ==
    [op   |-> c.op,
     args |-> c.args,
     id   |-> c.id,
     res  |-> c.res,
     used |-> IF c.op = "approveLeave" /\ c.bal # Null
              THEN c.bal[db.leaves[c.id].leaveType].used ELSE 0 - 1,
     mail |-> IF "mail" \in DOMAIN c THEN c.mail ELSE FALSE,
     audit |-> IF "audit" \in DOMAIN c THEN c.audit ELSE "none",
     out  |-> IF c.op = "generateBulkSalaries"
              THEN [success |-> c.success, failed |-> c.failed]
              ELSE [success |-> <<>>, failed |-> <<>>]]

NoCall ==
    [op |-> "none", args |-> <<>>, id |-> 0, res |-> Ok, used |-> 0 - 1,
     mail |-> FALSE, audit |-> "none", out |-> [success |-> <<>>, failed |-> <<>>]]

Idle == [op |-> "idle"]

Slots == {"a", "b"}

LeaveIds == 1..(MaxLeaves + 1)

Commit(r) ==
    /\ leaves' = r.db.leaves
    /\ balances' = r.db.balances
    /\ salaries' = r.db.salaries
    /\ last' = Returned(r.db, r.c)
    /\ UNCHANGED calls

CallLeave(c) ==
    \E r \in {RunLeave(DB, c)} :
        /\ Len(r.db.leaves) <= MaxLeaves
        /\ Commit(r)

ApplyLeave == \E in \in ApplyInputs, a \in BOOLEAN : CallLeave(NewApplyLeave(in, a))

GetLeaveBalance ==
    \E in \in BalanceInputs : CallLeave(NewGetLeaveBalance(in[1], in[2]))

ApproveLeave ==
    \E id \in LeaveIds, r \in Reviewers, a \in BOOLEAN :
        CallLeave(NewApproveLeave(id, r, a))

RejectLeave ==
    \E id \in LeaveIds, r \in Reviewers, a \in BOOLEAN :
        CallLeave(NewRejectLeave(id, r, a))

CancelLeave ==
    \E id \in LeaveIds, u \in Employees, a \in BOOLEAN :
        CallLeave(NewCancelLeave(id, u, a))

Init ==
    /\ leaves = <<>>
    /\ balances = [k \in Employees \X Years |-> Null]
    /\ salaries = <<>>
    /\ calls = [s \in Slots |-> Idle]
    /\ last = NoCall

NextLeave ==
    \/ ApplyLeave
    \/ GetLeaveBalance
    \/ ApproveLeave
    \/ RejectLeave
    \/ CancelLeave

\* The leave ledger, one handler at a time.
SpecLeave == Init /\ [][NextLeave]_vars

(***************************************************************************)
(* The leave ledger with calls that run at the same time: a call occupies  *)
(* a slot from its first store operation to its return, and the steps of   *)
(* the calls in the two slots interleave.  The audit write of a review or  *)
(* a cancellation succeeds in these runs.                                  *)
(***************************************************************************)
SteppedLeave(s, r) ==
    /\ Len(r.db.leaves) <= MaxLeaves
    /\ leaves' = r.db.leaves
    /\ balances' = r.db.balances
    /\ UNCHANGED salaries
    /\ IF r.c.pc = "done"
       THEN /\ calls' = [calls EXCEPT ![s] = Idle]
            /\ last' = Returned(r.db, r.c)
       ELSE /\ calls' = [calls EXCEPT ![s] = r.c]
            /\ UNCHANGED last

AdvanceLeave(s, c) == \E r \in {LeaveStep(DB, c)} : SteppedLeave(s, r)

\* The applyLeave requests of the interleaved runs: two requests of e1 on
\* separate days of this year, and a half day of e2 next year.
RaceApplyInputs ==
    { <<"e1", "casual", 1,  3,  FALSE, FALSE>>,
      <<"e1", "casual", 4,  5,  FALSE, FALSE>>,
      <<"e2", "paid",   15, 15, TRUE,  TRUE>> }

BeginApplyLeave ==
    \E s \in Slots, in \in RaceApplyInputs, a \in BOOLEAN :
        /\ calls[s] = Idle
        /\ AdvanceLeave(s, NewApplyLeave(in, a))

\* The requests under review in the interleaved runs: those of e1.
ReviewApplyInputs == {in \in RaceApplyInputs : in[1] = "e1"}

\* An application that runs from its first step to its return.
ApplyLeaveAlone ==
    \E in \in ReviewApplyInputs : CallLeave(NewApplyLeave(in, TRUE))

BeginGetLeaveBalance ==
    \E s \in Slots, in \in BalanceInputs :
        /\ calls[s] = Idle
        /\ AdvanceLeave(s, NewGetLeaveBalance(in[1], in[2]))

BeginApproveLeave ==
    \E s \in Slots, id \in LeaveIds, r \in Reviewers :
        /\ calls[s] = Idle
        /\ AdvanceLeave(s, NewApproveLeave(id, r, TRUE))

BeginRejectLeave ==
    \E s \in Slots, id \in LeaveIds, r \in Reviewers :
        /\ calls[s] = Idle
        /\ AdvanceLeave(s, NewRejectLeave(id, r, TRUE))

BeginCancelLeave ==
    \E s \in Slots, id \in LeaveIds, u \in Employees :
        /\ calls[s] = Idle
        /\ AdvanceLeave(s, NewCancelLeave(id, u, TRUE))

StepLeave ==
    \E s \in Slots :
        /\ calls[s] # Idle
        /\ AdvanceLeave(s, calls[s])

\* Applications and balance queries that run at the same time.
NextApplyRace ==
    \/ BeginApplyLeave
    \/ BeginGetLeaveBalance
    \/ StepLeave

SpecApplyRace == Init /\ [][NextApplyRace]_vars

\* Reviews and cancellations that run at the same time, on requests applied
\* for one at a time.
NextReviewRace ==
    \/ ApplyLeaveAlone
    \/ BeginApproveLeave
    \/ BeginRejectLeave
    \/ BeginCancelLeave
    \/ StepLeave

SpecReviewRace == Init /\ [][NextReviewRace]_vars

\* Approvals and cancellations that run at the same time on distinct
\* requests: a call begins on a request only while no call in progress is on
\* that request.
NoCallOn(id) == \A t \in Slots : IF calls[t] = Idle THEN TRUE ELSE calls[t].id # id

BeginApproveDistinct ==
    \E s \in Slots, id \in LeaveIds, r \in Reviewers :
        /\ calls[s] = Idle
        /\ NoCallOn(id)
        /\ AdvanceLeave(s, NewApproveLeave(id, r, TRUE))

BeginCancelDistinct ==
    \E s \in Slots, id \in LeaveIds, u \in Employees :
        /\ calls[s] = Idle
        /\ NoCallOn(id)
        /\ AdvanceLeave(s, NewCancelLeave(id, u, TRUE))

NextDistinctRace ==
    \/ ApplyLeaveAlone
    \/ BeginApproveDistinct
    \/ BeginCancelDistinct
    \/ StepLeave

SpecDistinctRace == Init /\ [][NextDistinctRace]_vars

(***************************************************************************)
(* Claims on the leave ledger.                                             *)
(***************************************************************************)
StoredBalances == {k \in DOMAIN balances : balances[k] # Null}

\* C1: every stored LeaveBalance has remaining = total - used for casual,
\* sick and paid, after any sequence of applyLeave, approveLeave,
\* rejectLeave, cancelLeave and getLeaveBalance.
C1_RemainingIsTotalMinusUsed ==
    \A k \in StoredBalances : \A t \in BalanceKeys :
        balances[k][t].remaining = balances[k][t].total - balances[k][t].used

\* A balance that an approval has debited and a balance that a cancellation
\* has credited back both occur.
C1_Witness ==
    /\ \E k \in StoredBalances : \E t \in BalanceKeys : balances[k][t].used > 0
    /\ last.op = "cancelLeave"
    /\ last.res = Ok

\* C2: remaining >= 0 for casual, sick and paid on every stored
\* LeaveBalance in every reachable state.
C2_RemainingNeverNegative ==
    \A k \in StoredBalances : \A t \in BalanceKeys : balances[k][t].remaining >= 0

\* The used counter of a request's type on the (employee, start-date year)
\* balance, -1 when there is no such balance.
UsedOf(bals, l) ==
    LET bal == BalanceOf(bals, l.userId, FullYear(l.startDate))
    IN  IF bal = Null THEN 0 - 1 ELSE bal[l.leaveType].used

\* C3: when approveLeave of a casual, sick or paid request has returned and
\* the next operation is cancelLeave of that request by its owner, the used
\* counter is back at its value before the approval.
C3_ApproveCancelRoundTrip ==
    [][( /\ last.op = "approveLeave"
         /\ last.res = Ok
         /\ leaves[last.id].leaveType \in BalanceKeys
         /\ last'.op = "cancelLeave"
         /\ last'.id = last.id
         /\ last'.args = <<leaves[last.id].userId>> )
       => UsedOf(balances', leaves[last.id]) = last.used]_vars

\* The interval [start, end] of whole days.
Interval(start, end) == {d \in 0..(LastDayOfYear + 2) : start <= d /\ d <= end}

\* The employee has a pending or approved request that shares a day with
\* [start, end].
HasActiveIntersecting(userId, start, end) ==
    \E i \in 1..Len(leaves) :
        /\ leaves[i].userId = userId
        /\ leaves[i].status \in {"pending", "approved"}
        /\ Interval(leaves[i].startDate, leaves[i].endDate)
              \cap Interval(start, end) # {}

\* C4: applyLeave fails with BadRequest and stores no request when the
\* employee has a pending or approved request sharing a day with the
\* requested interval, whatever the leave types; without such a request it
\* is never refused for overlap.
C4_OverlapRejected ==
    [][last'.op = "applyLeave" =>
         LET in == last'.args
         IN  /\ HasActiveIntersecting(in[1], in[3], in[4]) =>
                   (last'.res.kind = "BadRequest" /\ leaves' = leaves)
             /\ ~HasActiveIntersecting(in[1], in[3], in[4]) =>
                   last'.res # Err("BadRequest", "overlap")]_vars

\* An application has been refused for overlap while the employee holds an
\* approved unpaid request and a cancelled one.
C4_Witness ==
    /\ last.op = "applyLeave"
    /\ last.res = Err("BadRequest", "overlap")
    /\ last.args[2] = "casual"
    /\ \E i \in 1..Len(leaves) :
          /\ leaves[i].status = "approved"
          /\ leaves[i].leaveType = "unpaid"
          /\ leaves[i].userId = last.args[1]
    /\ \E i \in 1..Len(leaves) : leaves[i].status = "cancelled"

(***************************************************************************)
(* The salary ledger.  Amounts are whole rupees, except netSalary, which   *)
(* is kept in hundredths of a rupee (two decimal places).  A deleted       *)
(* record leaves Null at its place in salaries: an _id is never reused.    *)
(***************************************************************************)
SalaryMinYear == 2020

Users == Employees

EarningFields ==
    {"basic", "hra", "medicalAllowance", "transportAllowance", "otherAllowances", "bonus"}

DeductionFields == {"providentFund", "professionalTax", "incomeTax", "otherDeductions"}

StatusEnum == {"pending", "processed", "paid", "on-hold"}

PaymentMethods == {"bank-transfer", "cheque", "cash"}

\* salaryStructureSchema: the optional components default to 0.
StructureDefaults == [f \in (EarningFields \cup DeductionFields) \ {"basic", "hra"} |-> 0]

\* Casting a plain object to the structure subdocument: the fields given,
\* the defaults for the optional ones left out; basic and hra stay absent
\* when left out.
CastStructure(given) ==
    [f \in DOMAIN given \cup DOMAIN StructureDefaults |->
        IF f \in DOMAIN given THEN given[f] ELSE StructureDefaults[f]]

RECURSIVE SumOver(_, _)
SumOver(structure, fields) ==
    IF fields = {} THEN 0
    ELSE LET f == CHOOSE x \in fields : TRUE
         IN  structure[f] + SumOver(structure, fields \ {f})

(***************************************************************************)
(* JavaScript numbers: IEEE 754 binary64.  A double is a sign and a         *)
(* magnitude m * 2^e, where m is a natural number of at most 53 bits, kept *)
(* as a sequence of 16-bit limbs, least significant first.  Every          *)
(* operation yields its exact result rounded to 53 bits, ties to even.     *)
(***************************************************************************)
LimbBits == 16

Limb == 2^LimbBits

MantissaBits == 53

RECURSIVE Trim(_)
Trim(X) ==
    IF X # <<>> /\ X[Len(X)] = 0 THEN Trim(SubSeq(X, 1, Len(X) - 1)) ELSE X

RECURSIVE MulSmall(_, _, _)
MulSmall(X, c, carry) ==
    IF X = <<>>
    THEN IF carry = 0 THEN <<>> ELSE <<carry % Limb>> \o MulSmall(<<>>, c, carry \div Limb)
    ELSE LET t == Head(X) * c + carry
         IN  <<t % Limb>> \o MulSmall(Tail(X), c, t \div Limb)

RECURSIVE BitsOf(_)
BitsOf(n) == IF n = 0 THEN 0 ELSE 1 + BitsOf(n \div 2)

BitLen(X) == IF X = <<>> THEN 0 ELSE LimbBits * (Len(X) - 1) + BitsOf(X[Len(X)])

Bit(X, i) ==
    LET k == i \div LimbBits + 1
    IN  IF k > Len(X) THEN 0 ELSE (X[k] \div 2^(i % LimbBits)) % 2

\* The bits 0 .. i-1 of X are all 0.
LowZero(X, i) ==
    LET k == i \div LimbBits
    IN  /\ \A j \in 1..k : j > Len(X) \/ X[j] = 0
        /\ k + 1 > Len(X) \/ X[k + 1] % 2^(i % LimbBits) = 0

\* floor(X / 2^s)
ShiftRight(X, s) ==
    LET k == s \div LimbBits
        b == s % LimbBits
        Y == SubSeq(X, k + 1, Len(X))
    IN  Trim([j \in 1..Len(Y) |->
                (Y[j] \div 2^b)
                  + (IF j < Len(Y) THEN (Y[j + 1] % 2^b) * 2^(LimbBits - b) ELSE 0)])

RECURSIVE Inc(_)
Inc(X) ==
    IF X = <<>> THEN <<1>>
    ELSE IF Head(X) + 1 < Limb THEN <<Head(X) + 1>> \o Tail(X)
    ELSE <<0>> \o Inc(Tail(X))

RECURSIVE ToInt(_)
ToInt(X) == IF X = <<>> THEN 0 ELSE Head(X) + Limb * ToInt(Tail(X))

\* Round to nearest, ties to even: q is the quotient kept, half its first
\* dropped bit, more whether anything non-zero lies below that bit.
RoundEven(q, half, more, e) ==
    [m |-> IF half /\ (more \/ Bit(q, 0) = 1) THEN Inc(q) ELSE q, e |-> e]

RoundShift(X, sticky, e, s) ==
    IF s <= 0 THEN [m |-> X, e |-> e]
    ELSE RoundEven(ShiftRight(X, s), Bit(X, s - 1) = 1,
                   sticky \/ ~LowZero(X, s - 1), e + s)

\* The double nearest to X * 2^e (plus a non-zero part below the last bit of
\* X when sticky).
RoundToDouble(X, sticky, e) == RoundShift(X, sticky, e, BitLen(X) - MantissaBits)

RECURSIVE LowZeroLimbs(_)
LowZeroLimbs(X) == IF X = <<>> \/ Head(X) # 0 THEN 0 ELSE 1 + LowZeroLimbs(Tail(X))

\* X * 2^e without the k lowest limbs of X, which are 0, rounded.
DropLimbs(X, k, sticky, e) ==
    RoundToDouble(SubSeq(X, k + 1, Len(X)), sticky, e + k * LimbBits)

\* n / w in doubles, for integers n >= 0 and w > 0: the quotient with 64
\* binary places by long division, then rounded.  An exact quotient is
\* kept without its trailing zero limbs.
DivDouble(n, w) ==
    LET t1 == (n % w) * Limb
        t2 == (t1 % w) * Limb
        t3 == (t2 % w) * Limb
        t4 == (t3 % w) * Limb
        X == Trim(<<t4 \div w, t3 \div w, t2 \div w, t1 \div w,
                    (n \div w) % Limb, (n \div w) \div Limb>>)
    IN  DropLimbs(X, IF t4 % w # 0 THEN 0 ELSE LowZeroLimbs(X),
                  t4 % w # 0, 0 - 4 * LimbBits)

\* d * c in doubles, for an integer c >= 0.
MulDouble(d, c) == RoundToDouble(Trim(MulSmall(d.m, c, 0)), FALSE, d.e)

\* The nearest integer to ip + half/2 + (something more), a half rounded
\* towards +infinity, of the number itself or of its negation (neg).
RoundHalfUp(ip, half, more, neg) ==
    IF neg THEN 0 - (IF half /\ more THEN ip + 1 ELSE ip)
    ELSE IF half THEN ip + 1 ELSE ip

\* Math.round of the double d, negated when neg.
MathRound(d, neg) ==
    IF d.e >= 0 THEN (IF neg THEN 0 - 1 ELSE 1) * ToInt(d.m) * 2^d.e
    ELSE RoundHalfUp(ToInt(ShiftRight(d.m, 0 - d.e)), Bit(d.m, 0 - d.e - 1) = 1,
                     ~LowZero(d.m, 0 - d.e - 1), neg)

Abs(n) == IF n < 0 THEN 0 - n ELSE n

\* The magnitude of netAmount in the pre('save') hook: gross - deductions,
\* divided by workingDays and then multiplied by presentDays when the record
\* is prorated and workingDays > 0.
NetAmount(doc) ==
    IF doc.isProrated /\ doc.workingDays > 0
    THEN MulDouble(DivDouble(Abs(doc.grossSalary - doc.totalDeductions), doc.workingDays),
                   doc.presentDays)
    ELSE DivDouble(Abs(doc.grossSalary - doc.totalDeductions), 1)

\* Math.round(netAmount * 100), the net salary in hundredths.
RoundedNet(doc) ==
    MathRound(MulDouble(NetAmount(doc), 100), doc.grossSalary < doc.totalDeductions)

\* A hook that keeps the gross and the deductions it finds on the document.
PreSaveSalaryTrusting(doc) == [doc EXCEPT !.netSalary = RoundedNet(doc)]

\* salarySchema.pre('save'): gross, deductions and net are recomputed from
\* the structure and the day counts.
PreSaveSalary(doc) ==
    LET sums == [doc EXCEPT !.grossSalary = SumOver(doc.structure, EarningFields),
                            !.totalDeductions = SumOver(doc.structure, DeductionFields)]
    IN  [sums EXCEPT !.netSalary = RoundedNet(sums)]

\* Schema validation, which save() runs on the document as it stands before
\* the hook: required fields, minima, maxima and enums.
SalaryValid(doc) ==
    /\ {"basic", "hra"} \subseteq DOMAIN doc.structure
    /\ \A f \in DOMAIN doc.structure : doc.structure[f] >= 0
    /\ doc.month >= 1 /\ doc.month <= 12
    /\ doc.year >= SalaryMinYear
    /\ doc.grossSalary >= 0
    /\ doc.totalDeductions >= 0
    /\ doc.netSalary >= 0
    /\ doc.status \in StatusEnum
    /\ doc.paymentMethod \in PaymentMethods \cup {"none"}
    /\ doc.workingDays >= 0 /\ doc.workingDays <= 31
    /\ doc.presentDays >= 0 /\ doc.presentDays <= 31
    /\ doc.absentDays >= 0

(***************************************************************************)
(* Salary handlers as step functions.                                      *)
(***************************************************************************)
\* salaryModel.findById
FindSalary(db, id) ==
    IF id \in 1..Len(db.salaries) THEN db.salaries[id] ELSE Null

\* salaryModel.findOne({userId, month, year})
SameKey(r, userId, month, year) ==
    r # Null /\ r.userId = userId /\ r.month = month /\ r.year = year

ExistsSalary(ss, userId, month, year) ==
    \E i \in 1..Len(ss) : SameKey(ss[i], userId, month, year)

\* An insert into a collection without the unique index.
InsertSalaryNoIndex(db, doc) ==
    [ok |-> TRUE, err |-> Ok, db |-> [db EXCEPT !.salaries = Append(@, doc)]]

\* The insert of a new document: the unique index {userId, month, year}
\* refuses a second document of the same key with a duplicate-key error.
InsertSalary(db, doc) ==
    IF ExistsSalary(db.salaries, doc.userId, doc.month, doc.year)
    THEN [ok |-> FALSE, err |-> Err("MongoServerError", "duplicateKey"), db |-> db]
    ELSE [ok |-> TRUE, err |-> Ok, db |-> [db EXCEPT !.salaries = Append(@, doc)]]

SalaryFields ==
    {"userId", "month", "year", "structure", "grossSalary", "totalDeductions",
     "netSalary", "status", "paymentMethod", "actualCreditDate", "processedBy",
     "processedAt", "workingDays", "presentDays", "absentDays", "isProrated"}

\* The update document.save() sends once the hook has run: it sets the paths
\* whose value differs from the loaded one.  Nothing is sent when no path
\* differs; the update of a document that is gone fails with
\* DocumentNotFoundError.
UpdateModified(db, id, loaded, hooked) ==
    IF \A f \in SalaryFields : hooked[f] = loaded[f]
    THEN [ok |-> TRUE, err |-> Ok, db |-> db]
    ELSE IF db.salaries[id] = Null
    THEN [ok |-> FALSE, err |-> Err("DocumentNotFoundError", "salary"), db |-> db]
    ELSE [ok |-> TRUE, err |-> Ok,
          db |-> [db EXCEPT !.salaries[id] =
                    [f \in SalaryFields |->
                        IF hooked[f] # loaded[f] THEN hooked[f] ELSE @[f]]]]

\* document.save() of a loaded document: validation of the document, the
\* pre('save') hook (run once, its result bound to hooked), then the update.
SaveSalary(db, id, loaded, doc) ==
    IF ~SalaryValid(doc)
    THEN [ok |-> FALSE, err |-> Err("ValidationError", "salary"), db |-> db]
    ELSE CHOOSE r \in {UpdateModified(db, id, loaded, hooked) :
                         hooked \in {PreSaveSalary(doc)}} : TRUE

\* The document salaryModel.create builds from createSalary's arguments.
NewSalary(c) ==
    [userId |-> c.userId, month |-> c.month, year |-> c.year,
     structure |-> CastStructure(c.structure),
     grossSalary |-> c.amounts[1], totalDeductions |-> c.amounts[2],
     netSalary |-> c.amounts[3],
     status |-> "pending", paymentMethod |-> "none", actualCreditDate |-> FALSE,
     processedBy |-> "none", processedAt |-> FALSE,
     workingDays |-> c.workingDays, presentDays |-> c.presentDays,
     absentDays |-> c.absentDays, isProrated |-> c.isProrated]

\* The outcome r of salaryModel.create in createSalary.
Created(db, c, r) ==
    IF r.ok
    THEN Goto(r.db, [c EXCEPT !.id = Len(r.db.salaries)], "audit")
    ELSE Done(db, c, r.err)

\* The day check with the absent days left out.
DaysExceedPresentOnly(presentDays, absentDays, workingDays) ==
    presentDays > workingDays

\* "Validate days" of createSalary and updateSalary.
DaysExceed(presentDays, absentDays, workingDays) ==
    presentDays + absentDays > workingDays

\* createSalary: the user lookup, the existence check followed by the day
\* check, the insert, the audit entry.
CreateSalaryStep(db, c) ==
    CASE c.pc = "findUser" ->
            IF c.userId \notin Users
            THEN Done(db, c, Err("NotFound", "user"))
            ELSE Goto(db, c, "findExisting")
      [] c.pc = "findExisting" ->
            IF ExistsSalary(db.salaries, c.userId, c.month, c.year)
            THEN Done(db, c, Err("BadRequest", "exists"))
            ELSE IF DaysExceed(c.presentDays, c.absentDays, c.workingDays)
            THEN Done(db, c, Err("BadRequest", "days"))
            ELSE Goto(db, c, "create")
      [] c.pc = "create" ->
            IF ~SalaryValid(NewSalary(c))
            THEN Done(db, c, Err("ValidationError", "salary"))
            ELSE Created(db, c, InsertSalary(db, PreSaveSalary(NewSalary(c))))
      [] c.pc = "audit" -> AuditStep(db, c)

\* A guard that lets every record through.
IsPaidNever(rec) == FALSE

\* salary.status === 'paid', the guard of processSalaryPayment, updateSalary
\* and deleteSalary.
IsPaid(rec) == rec.status = "paid"

\* The save and the audit entry that end the handlers of a loaded record;
\* mail tells whether sendSalaryPaidEmail follows the audit entry.
Saved(db, c, r) == IF r.ok THEN Goto(r.db, c, "audit") ELSE Done(db, c, r.err)

SaveSalaryStep(db, c) == Saved(db, c, SaveSalary(db, c.id, c.loaded, c.doc))

AuditMailStep(db, c, mail) ==
    IF c.auditOk
    THEN Done(db, [c EXCEPT !.mail = mail, !.audit = "written"], Ok)
    ELSE Done(db, [c EXCEPT !.audit = "failed"], Err("StoreError", "audit"))

\* updateSalaryStatus: any status is written over any other one;
\* processedBy and processedAt are stamped for the status processed only.
UpdateSalaryStatusStep(db, c) ==
    CASE c.pc = "find" ->
            LET rec == FindSalary(db, c.id)
            IN  IF rec = Null
                THEN Done(db, c, Err("NotFound", "salary"))
                ELSE Goto(db,
                          [c EXCEPT !.loaded = rec,
                                    !.doc = [rec EXCEPT
                                        !.status = c.status,
                                        !.processedBy =
                                            IF c.status = "processed" THEN c.by ELSE @,
                                        !.processedAt =
                                            IF c.status = "processed" THEN TRUE ELSE @]],
                          "save")
      [] c.pc = "save" -> SaveSalaryStep(db, c)
      [] c.pc = "audit" ->
            AuditMailStep(db, c, c.status = "paid" /\ c.loaded.status # "paid")

\* processSalaryPayment
ProcessSalaryPaymentStep(db, c) ==
    CASE c.pc = "find" ->
            LET rec == FindSalary(db, c.id)
            IN  IF rec = Null
                THEN Done(db, c, Err("NotFound", "salary"))
                ELSE IF IsPaid(rec)
                THEN Done(db, c, Err("BadRequest", "alreadyPaid"))
                ELSE Goto(db,
                          [c EXCEPT !.loaded = rec,
                                    !.doc = [rec EXCEPT
                                        !.status = "paid",
                                        !.paymentMethod = c.paymentMethod,
                                        !.actualCreditDate = TRUE,
                                        !.processedBy = c.by,
                                        !.processedAt = TRUE]],
                          "save")
      [] c.pc = "save" -> SaveSalaryStep(db, c)
      [] c.pc = "audit" -> AuditMailStep(db, c, TRUE)

\* { ...salary.structure, ...updateData.structure }: with spread = "fields"
\* the stored structure's fields are copied and the given ones laid over
\* them; with spread = "internals" the spread of the subdocument yields its
\* internal properties, which the schema drops, and only the given fields
\* (and the defaults) are left.
MergeStructure(stored, given, spread) ==
    IF spread = "fields"
    THEN [f \in DOMAIN stored \cup DOMAIN given |->
             IF f \in DOMAIN given THEN given[f] ELSE stored[f]]
    ELSE CastStructure(given)

Given(upd, f, old) == IF f \in DOMAIN upd THEN upd[f] ELSE old

\* updateSalary, lines 413-418: the fields of updateData laid over the
\* loaded record.
ApplyUpdate(rec, upd, spread) ==
    [rec EXCEPT
        !.structure = IF "structure" \in DOMAIN upd
                      THEN MergeStructure(@, upd.structure, spread) ELSE @,
        !.workingDays = Given(upd, "workingDays", @),
        !.presentDays = Given(upd, "presentDays", @),
        !.absentDays = Given(upd, "absentDays", @),
        !.isProrated = Given(upd, "isProrated", @)]

UpdateSalaryStep(db, c) ==
    CASE c.pc = "find" ->
            LET rec == FindSalary(db, c.id)
                doc == ApplyUpdate(rec, c.updateData, c.spread)
            IN  IF rec = Null
                THEN Done(db, c, Err("NotFound", "salary"))
                ELSE IF IsPaid(rec)
                THEN Done(db, c, Err("BadRequest", "paid"))
                ELSE IF DaysExceed(doc.presentDays, doc.absentDays, doc.workingDays)
                THEN Done(db, c, Err("BadRequest", "days"))
                ELSE Goto(db, [c EXCEPT !.loaded = rec, !.doc = doc], "save")
      [] c.pc = "save" -> SaveSalaryStep(db, c)
      [] c.pc = "audit" -> AuditStep(db, c)

\* deleteSalary
DeleteSalaryStep(db, c) ==
    CASE c.pc = "find" ->
            LET rec == FindSalary(db, c.id)
            IN  IF rec = Null
                THEN Done(db, c, Err("NotFound", "salary"))
                ELSE IF IsPaid(rec)
                THEN Done(db, c, Err("BadRequest", "paid"))
                ELSE Goto(db, c, "delete")
      [] c.pc = "delete" ->
            Goto([db EXCEPT !.salaries[c.id] = Null], c, "audit")
      [] c.pc = "audit" -> AuditStep(db, c)

\* userModel.find({status: 'active', roles: 'employee'}), in store order.
ActiveEmployees == <<"e1", "e2">>

\* The department of each active employee.
Department == [e \in Employees |-> IF e = "e1" THEN "eng" ELSE "ops"]

\* The employee query of generateBulkSalaries: the active employees, of the
\* department given when one is given ("none": no department argument).
EligibleEmployees(department) ==
    SelectSeq(ActiveEmployees,
              LAMBDA e : department = "none" \/ Department[e] = department)

\* defaultStructure of generateBulkSalaries
DefaultStructure ==
    [basic |-> 30000, hra |-> 12000, medicalAllowance |-> 2000,
     transportAllowance |-> 1500, otherAllowances |-> 1000, bonus |-> 0,
     providentFund |-> 3600, professionalTax |-> 200, incomeTax |-> 5000,
     otherDeductions |-> 0]

NewCreateSalary(in, auditOk) ==
    [op |-> "createSalary", pc |-> "findUser", res |-> Ok, id |-> 0, args |-> in,
     userId |-> in[1], month |-> in[2], year |-> in[3], structure |-> in[4],
     amounts |-> in[5], workingDays |-> in[6], presentDays |-> in[7],
     absentDays |-> in[8], isProrated |-> in[9], auditOk |-> auditOk, audit |-> "none"]

\* The createSalary call generateBulkSalaries makes for an employee: the
\* default structure, its sums as the amounts, 30 of 30 days, not prorated.
BulkCreate(c, userId) ==
    LET gross == SumOver(DefaultStructure, EarningFields)
        deductions == SumOver(DefaultStructure, DeductionFields)
    IN  NewCreateSalary(<<userId, c.month, c.year, DefaultStructure,
                          <<gross, deductions, 100 * (gross - deductions)>>,
                          30, 30, 0, FALSE>>, c.auditOk)

\* The end of one round of the loop over the employees.
BulkNext(db, c, success, failed) ==
    LET d == [c EXCEPT !.todo = Tail(@), !.success = success, !.failed = failed,
                       !.inner = Null]
    IN  IF Tail(c.todo) = <<>> THEN Done(db, d, Ok) ELSE Goto(db, d, "findExisting")

\* A loop that lets what createSalary throws end the whole call.
BulkInnerAborting(c, r) ==
    IF r.c.pc # "done"
    THEN Goto(r.db, [c EXCEPT !.inner = r.c], "inner")
    ELSE IF r.c.res = Ok
    THEN BulkNext(r.db, c, Append(c.success, Head(c.todo)), c.failed)
    ELSE Done(r.db, c, r.c.res)

\* One step r of the createSalary call made for the employee at hand.
BulkInner(c, r) ==
    IF r.c.pc # "done"
    THEN Goto(r.db, [c EXCEPT !.inner = r.c], "inner")
    ELSE IF r.c.res = Ok
    THEN BulkNext(r.db, c, Append(c.success, Head(c.todo)), c.failed)
    ELSE BulkNext(r.db, c, c.success,
                  Append(c.failed, <<Head(c.todo), r.c.res.msg>>))

\* generateBulkSalaries: the employee query, then for each employee the
\* existence check and a createSalary call inside try/catch; whatever that
\* call throws puts the employee in failed with the error's message.
GenerateBulkSalariesStep(db, c) ==
    CASE c.pc = "findEmployees" ->
            IF EligibleEmployees(c.department) = <<>>
            THEN Done(db, c, Err("NotFound", "employees"))
            ELSE Goto(db, [c EXCEPT !.todo = EligibleEmployees(c.department)],
                      "findExisting")
      [] c.pc = "findExisting" ->
            IF ExistsSalary(db.salaries, Head(c.todo), c.month, c.year)
            THEN BulkNext(db, c, c.success,
                          Append(c.failed, <<Head(c.todo), "Salary already exists">>))
            ELSE Goto(db, [c EXCEPT !.inner = BulkCreate(c, Head(c.todo))], "inner")
      [] c.pc = "inner" -> BulkInner(c, CreateSalaryStep(db, c.inner))

NewGenerateBulkSalaries(month, year, department, auditOk) ==
    [op |-> "generateBulkSalaries", pc |-> "findEmployees", res |-> Ok, id |-> 0,
     args |-> <<month, year, department>>, month |-> month, year |-> year,
     department |-> department, auditOk |-> auditOk, audit |-> "none",
     todo |-> <<>>, success |-> <<>>, failed |-> <<>>, inner |-> Null]

NewUpdateSalaryStatus(id, status, by, auditOk) ==
    [op |-> "updateSalaryStatus", pc |-> "find", res |-> Ok, id |-> id,
     args |-> <<status, by>>, status |-> status, by |-> by, auditOk |-> auditOk, audit |-> "none",
     loaded |-> Null, doc |-> Null, mail |-> FALSE]

NewProcessSalaryPayment(id, paymentMethod, by, auditOk) ==
    [op |-> "processSalaryPayment", pc |-> "find", res |-> Ok, id |-> id,
     args |-> <<paymentMethod>>, paymentMethod |-> paymentMethod, by |-> by,
     auditOk |-> auditOk, audit |-> "none", loaded |-> Null, doc |-> Null, mail |-> FALSE]

NewUpdateSalary(id, updateData, spread, auditOk) ==
    [op |-> "updateSalary", pc |-> "find", res |-> Ok, id |-> id,
     args |-> <<updateData>>, updateData |-> updateData, spread |-> spread,
     auditOk |-> auditOk, audit |-> "none", loaded |-> Null, doc |-> Null]

NewDeleteSalary(id, auditOk) ==
    [op |-> "deleteSalary", pc |-> "find", res |-> Ok, id |-> id, args |-> <<>>,
     auditOk |-> auditOk, audit |-> "none"]

SalaryStep(db, c) ==
    CASE c.op = "createSalary"         -> CreateSalaryStep(db, c)
      [] c.op = "generateBulkSalaries" -> GenerateBulkSalariesStep(db, c)
      [] c.op = "updateSalaryStatus"   -> UpdateSalaryStatusStep(db, c)
      [] c.op = "processSalaryPayment" -> ProcessSalaryPaymentStep(db, c)
      [] c.op = "updateSalary"         -> UpdateSalaryStep(db, c)
      [] c.op = "deleteSalary"         -> DeleteSalaryStep(db, c)

RECURSIVE RunSalary(_, _)
RunSalary(db, c) ==
    IF c.pc = "done" THEN [db |-> db, c |-> c]
    ELSE LET r == SalaryStep(db, c) IN RunSalary(r.db, r.c)

(***************************************************************************)
(* The calls of the salary ledger and their arguments.                     *)
(***************************************************************************)
ScenarioStructure ==
    [basic |-> 30000, hra |-> 12000, medicalAllowance |-> 2000,
     providentFund |-> 3600, professionalTax |-> 200]

SmallStructure == [basic |-> 49, hra |-> 0]

\* Deductions above the earnings.
DebtStructure == [basic |-> 10, hra |-> 0, incomeTax |-> 11]

\* The createSalary requests: (userId, month, year, structure, (grossSalary,
\* totalDeductions, netSalary) as the caller computed them, workingDays,
\* presentDays, absentDays, isProrated).
CreateInputs ==
    { <<"e1", 3, 2025, ScenarioStructure, <<44000, 3800, 4020000>>, 30, 30, 0, FALSE>>,
      <<"e2", 3, 2025, SmallStructure, <<1, 1, 1>>, 24, 15, 1, TRUE>>,
      <<"e1", 3, 2025, DebtStructure, <<0, 0, 0>>, 0, 0, 0, TRUE>>,
      <<"e1", 3, 2025, SmallStructure, <<49, 0, 4900>>, 30, 20, 11, FALSE>>,
      <<"e2", 3, 2025, ScenarioStructure, <<0 - 1, 0, 0>>, 30, 30, 0, FALSE>>,
      <<"ghost", 3, 2025, SmallStructure, <<49, 0, 4900>>, 30, 30, 0, FALSE>> }

\* The updateData of the updateSalary requests.
UpdateInputs ==
    { [structure |-> [bonus |-> 5000], presentDays |-> 20, isProrated |-> TRUE] }

SpreadOutcomes == {"fields", "internals"}

\* The generateBulkSalaries requests: (month, year, department).
BulkInputs == { <<3, 2025, "none">>, <<3, 2025, "eng">>, <<3, 2025, "sales">> }

SalaryIds == 1..(MaxSalaries + 1)

CallSalary(c) ==
    \E r \in {RunSalary(DB, c)} :
        /\ Len(r.db.salaries) <= MaxSalaries
        /\ Commit(r)

CreateSalary ==
    \E in \in CreateInputs, a \in BOOLEAN : CallSalary(NewCreateSalary(in, a))

UpdateSalaryStatus ==
    \E id \in SalaryIds, st \in StatusEnum, by \in Reviewers, a \in BOOLEAN :
        CallSalary(NewUpdateSalaryStatus(id, st, by, a))

ProcessSalaryPayment ==
    \E id \in SalaryIds, by \in Reviewers, a \in BOOLEAN :
        CallSalary(NewProcessSalaryPayment(id, "bank-transfer", by, a))

UpdateSalary ==
    \E id \in SalaryIds, upd \in UpdateInputs, sp \in SpreadOutcomes, a \in BOOLEAN :
        CallSalary(NewUpdateSalary(id, upd, sp, a))

DeleteSalary ==
    \E id \in SalaryIds, a \in BOOLEAN : CallSalary(NewDeleteSalary(id, a))

NextSalary ==
    \/ CreateSalary
    \/ UpdateSalaryStatus
    \/ ProcessSalaryPayment
    \/ UpdateSalary
    \/ DeleteSalary

\* The salary ledger, one handler at a time, on records that createSalary
\* was called for directly.
SpecSalary == Init /\ [][NextSalary]_vars

(***************************************************************************)
(* Concurrent salary creation.  Each slot holds one call in progress; a    *)
(* step of a call is one store operation and the code that follows it up   *)
(* to the next await, and steps of the two calls interleave freely.        *)
(***************************************************************************)
\* The result r of one step of the call in slot s.
Stepped(s, r) ==
    /\ Len(r.db.salaries) <= MaxSalaries
    /\ salaries' = r.db.salaries
    /\ UNCHANGED <<leaves, balances>>
    /\ IF r.c.pc = "done"
       THEN /\ calls' = [calls EXCEPT ![s] = Idle]
            /\ last' = Returned(r.db, r.c)
       ELSE /\ calls' = [calls EXCEPT ![s] = r.c]
            /\ UNCHANGED last

Advance(s, c) == \E r \in {SalaryStep(DB, c)} : Stepped(s, r)

BeginCreateSalary ==
    \E s \in Slots, in \in CreateInputs, a \in BOOLEAN :
        /\ calls[s] = Idle
        /\ Advance(s, NewCreateSalary(in, a))

BeginGenerateBulkSalaries ==
    \E s \in Slots, in \in BulkInputs, a \in BOOLEAN :
        /\ calls[s] = Idle
        /\ Advance(s, NewGenerateBulkSalaries(in[1], in[2], in[3], a))

StepSalary ==
    \E s \in Slots :
        /\ calls[s] # Idle
        /\ Advance(s, calls[s])

NextSalaryRace ==
    \/ BeginCreateSalary
    \/ BeginGenerateBulkSalaries
    \/ StepSalary

SpecSalaryRace == Init /\ [][NextSalaryRace]_vars

GenerateBulkSalaries ==
    \E in \in BulkInputs, a \in BOOLEAN :
        CallSalary(NewGenerateBulkSalaries(in[1], in[2], in[3], a))

NextSalaryBulk ==
    \/ CreateSalary
    \/ ProcessSalaryPayment
    \/ DeleteSalary
    \/ GenerateBulkSalaries

\* The salary ledger with bulk generation, one handler at a time.
SpecSalaryBulk == Init /\ [][NextSalaryBulk]_vars

\* Payments of salary records by callers that run at the same time.
BeginProcessSalaryPayment ==
    \E s \in Slots, id \in SalaryIds, by \in Reviewers, a \in BOOLEAN :
        /\ calls[s] = Idle
        /\ Advance(s, NewProcessSalaryPayment(id, "bank-transfer", by, a))

NextPaymentRace ==
    \/ BeginCreateSalary
    \/ BeginProcessSalaryPayment
    \/ StepSalary

SpecPaymentRace == Init /\ [][NextPaymentRace]_vars

\* C12: approveLeave and rejectLeave return normally only on a pending
\* request; on an approved, rejected or cancelled request they fail with
\* BadRequest and on an unknown id with NotFound, and then no request
\* (status, reviewer) and no LeaveBalance has changed.
C12_ReviewOnlyPending ==
    [][last'.op \in {"approveLeave", "rejectLeave"} =>
         LET l == FindLeave(leaves, last'.id)
         IN  /\ l = Null =>
                   /\ last'.res.kind = "NotFound"
                   /\ leaves' = leaves /\ balances' = balances
             /\ (l # Null /\ l.status # "pending") =>
                   /\ last'.res.kind = "BadRequest"
                   /\ leaves' = leaves /\ balances' = balances
             /\ last'.res = Ok => (l # Null /\ l.status = "pending")]_vars

\* A review of a request that was approved and then cancelled by its owner,
\* whose balance has been debited and credited, has been refused.
C12_Witness ==
    /\ last.op \in {"approveLeave", "rejectLeave"}
    /\ last.res.kind = "BadRequest"
    /\ leaves[last.id].status = "cancelled"
    /\ leaves[last.id].reviewedBy = "hr1"
    /\ \E i \in 1..Len(leaves) :
          leaves[i].status = "approved" /\ leaves[i].leaveType \in BalanceKeys

\* C13: a request whose status is rejected or cancelled keeps that status
\* through every approveLeave, rejectLeave and cancelLeave; in particular
\* a rejected request is never cancelled.
C13_RejectedCancelledTerminal ==
    [][\A i \in 1..Len(leaves) :
          leaves[i].status \in {"rejected", "cancelled"} =>
              leaves'[i].status = leaves[i].status]_vars

\* The owner of a rejected request has tried to cancel it.
C13_Witness ==
    /\ last.op = "cancelLeave"
    /\ last.res = Err("BadRequest", "rejected")
    /\ leaves[last.id].status = "rejected"
    /\ last.args = <<leaves[last.id].userId>>

\* C14: cancelLeave called by someone who is not the owner of the request
\* fails with Forbidden whatever the request's status, and no request and
\* no LeaveBalance has changed.
C14_CancelByOwnerOnly ==
    [][last'.op = "cancelLeave" =>
         LET l == FindLeave(leaves, last'.id)
         IN  (l # Null /\ l.userId # last'.args[1]) =>
                 /\ last'.res.kind = "Forbidden"
                 /\ leaves' = leaves /\ balances' = balances]_vars

\* Another employee has tried to cancel an approved request, and before
\* that a request that is cancelled already.
C14_Witness ==
    /\ last.op = "cancelLeave"
    /\ last.res.kind = "Forbidden"
    /\ leaves[last.id].status = "approved"
    /\ leaves[last.id].leaveType \in BalanceKeys
    /\ \E i \in 1..Len(leaves) : leaves[i].status = "cancelled"

\* C15: when approveLeave returns normally on a casual, sick or paid
\* request, the balance of (employee, year of the start date) exists and its
\* used counter of that type is the one before the call plus the request's
\* totalDays, also for a start date in a year other than the current one.
C15_ApprovalDebitsStartYear ==
    [][( /\ last'.op = "approveLeave"
         /\ last'.res = Ok
         /\ leaves[last'.id].leaveType \in BalanceKeys )
       => LET l == leaves[last'.id]
          IN  /\ BalanceOf(balances', l.userId, FullYear(l.startDate)) # Null
              /\ UsedOf(balances', l) = UsedOf(balances, l) + l.totalDays]_vars

\* C16: an operation that ends in NotFound, BadRequest or Forbidden leaves
\* the leave requests, the leave balances and the salary records as they
\* were before the call.
C16_ErrorsLeaveStateUnchanged ==
    [][last'.res.kind \in {"NotFound", "BadRequest", "Forbidden"} =>
          (leaves' = leaves /\ balances' = balances /\ salaries' = salaries)]_vars

(***************************************************************************)
(* Claims on the salary ledger.                                            *)
(***************************************************************************)
\* C5: in every reachable state, concurrent createSalary and
\* generateBulkSalaries calls included, no two stored salary records have
\* the same (employee, month, year).
C5_OneRecordPerEmployeeMonth ==
    \A i, j \in 1..Len(salaries) :
        (i # j /\ salaries[i] # Null)
            => ~SameKey(salaries[j], salaries[i].userId, salaries[i].month,
                        salaries[i].year)

\* A generateBulkSalaries call has lost the insert for an employee to a
\* concurrent createSalary, after both had found no record.
C5_Witness ==
    /\ last.op = "generateBulkSalaries"
    /\ \E k \in 1..Len(last.out.failed) : last.out.failed[k][2] = "duplicateKey"
    /\ \E i \in 1..Len(salaries) :
          salaries[i] # Null /\ salaries[i].structure # CastStructure(DefaultStructure)

\* The request of a createSalary call is one the handler accepts when no
\* record of its key exists.
Acceptable(c) ==
    /\ c.userId \in Users
    /\ c.presentDays + c.absentDays <= c.workingDays
    /\ SalaryValid(NewSalary(c))

\* C6: a createSalary call with an acceptable request that returns without
\* having stored a record while a record of its (employee, month, year)
\* exists, stored before the call or by a concurrent call that won, has
\* failed with BadRequest "already exists" and has left the store unchanged.
C6_DuplicateCreateIsBadRequest ==
    [][\A s \in Slots :
          ( /\ calls[s].op = "createSalary"
            /\ calls'[s] = Idle
            /\ calls[s].id = 0
            /\ Acceptable(calls[s])
            /\ ExistsSalary(salaries, calls[s].userId, calls[s].month, calls[s].year) )
          => (last'.res = Err("BadRequest", "exists") /\ salaries' = salaries)]_vars

StoredSalaries == {i \in 1..Len(salaries) : salaries[i] # Null}

\* round2 of the number num / den, den > 0, in hundredths: the nearest
\* hundredth, a half rounded up.
Round2(num, den) == (200 * num + den) \div (2 * den)

\* C7: updateSalary, deleteSalary and processSalaryPayment on a record whose
\* status is paid fail with BadRequest and leave every record as it was.
C7_PaidRecordIsGuarded ==
    [][( /\ last'.op \in {"updateSalary", "deleteSalary", "processSalaryPayment"}
         /\ last'.id \in StoredSalaries
         /\ salaries[last'.id].status = "paid" )
       => (last'.res.kind = "BadRequest" /\ salaries' = salaries)]_vars

\* An updateSalary has been refused on a record that processSalaryPayment
\* paid.
C7_Witness ==
    /\ last.op = "updateSalary"
    /\ last.res = Err("BadRequest", "paid")
    /\ salaries[last.id].status = "paid"
    /\ salaries[last.id].paymentMethod = "bank-transfer"

\* C8: a record whose status is paid is still stored, with status paid,
\* after any updateSalaryStatus, processSalaryPayment, updateSalary or
\* deleteSalary.
C8_PaidIsTerminal ==
    [][\A i \in StoredSalaries :
          salaries[i].status = "paid"
              => (salaries'[i] # Null /\ salaries'[i].status = "paid")]_vars

\* C9: on every stored record netSalary (in hundredths) is
\* round2(gross - deductions) when the record is not prorated and
\* round2((gross - deductions) * presentDays / workingDays) when it is
\* prorated; the structure basic 30000, hra 12000, medical 2000, PF 3600,
\* professional tax 200, unprorated, gives gross 44000, deductions 3800,
\* net 40200.  For workingDays = 0 the quotient is no number; the formula is
\* stated for workingDays > 0.
C9_NetSalaryFormula ==
    \A i \in StoredSalaries :
        LET r == salaries[i]
            net == r.grossSalary - r.totalDeductions
        IN  /\ ~r.isProrated => r.netSalary = Round2(net, 1)
            /\ (r.isProrated /\ r.workingDays > 0) =>
                  r.netSalary = Round2(net * r.presentDays, r.workingDays)
            /\ (r.structure = CastStructure(ScenarioStructure) /\ ~r.isProrated) =>
                  (r.grossSalary = 44000 /\ r.totalDeductions = 3800
                      /\ r.netSalary = 4020000)

\* C10: on every stored record grossSalary is the sum of the structure's
\* earning components and totalDeductions the sum of its deduction
\* components, whatever amounts createSalary was given.
C10_SumsComeFromStructure ==
    \A i \in StoredSalaries :
        LET r == salaries[i]
            st == r.structure
        IN  /\ r.grossSalary = st.basic + st.hra + st.medicalAllowance
                    + st.transportAllowance + st.otherAllowances + st.bonus
            /\ r.totalDeductions = st.providentFund + st.professionalTax
                    + st.incomeTax + st.otherDeductions

\* createSalary has stored a record whose amounts differ from the ones it
\* was given, and an updateSalary has changed a structure.
C10_Witness ==
    /\ last.op = "createSalary"
    /\ last.res = Ok
    /\ last.args[5][1] # salaries[last.id].grossSalary
    /\ \E i \in StoredSalaries : salaries[i].structure.bonus = 5000

(***************************************************************************)
(* Claims on bulk generation.                                              *)
(***************************************************************************)
Range(seq) == {seq[i] : i \in 1..Len(seq)}

\* The positions of the stored records of (userId, month, year).
RecordsOf(ss, userId, month, year) ==
    {i \in 1..Len(ss) : SameKey(ss[i], userId, month, year)}

\* C11: a generateBulkSalaries(month, year) call with at least one eligible
\* employee returns normally; every eligible employee (of the department
\* given, when one is given) is in exactly one of success and failed; an
\* employee who had a record of (month, year) before the call is in failed
\* with the reason "Salary already exists" and that record is unchanged;
\* every employee in success had no record and has exactly one after the
\* call, with status pending.
C11_BulkPartialFailure ==
    [][(last'.op = "generateBulkSalaries" /\ EligibleEmployees(last'.args[3]) # <<>>) =>
         LET in   == last'.args
             emps == Range(EligibleEmployees(in[3]))
             out  == last'.out
         IN  /\ last'.res = Ok
             /\ Len(out.success) + Len(out.failed) = Cardinality(emps)
             /\ Range(out.success) \cup {f[1] : f \in Range(out.failed)} = emps
             /\ \A e \in emps :
                   ExistsSalary(salaries, e, in[1], in[2]) =>
                      /\ <<e, "Salary already exists">> \in Range(out.failed)
                      /\ \A i \in RecordsOf(salaries, e, in[1], in[2]) :
                            salaries'[i] = salaries[i]
             /\ \A e \in Range(out.success) :
                   /\ RecordsOf(salaries, e, in[1], in[2]) = {}
                   /\ Cardinality(RecordsOf(salaries', e, in[1], in[2])) = 1
                   /\ \A i \in RecordsOf(salaries', e, in[1], in[2]) :
                         salaries'[i].status = "pending"]_vars

\* A call over both employees has returned one of them in success and the
\* other, whose record was paid before, in failed.
C11_Witness ==
    /\ last.op = "generateBulkSalaries"
    /\ last.res = Ok
    /\ last.out.success = <<"e2">>
    /\ last.out.failed = << <<"e1", "Salary already exists">> >>
    /\ \E i \in RecordsOf(salaries, "e1", 3, 2025) : salaries[i].status = "paid"

(***************************************************************************)
(* Claims on the audit trail, the day counts and the payment stamps.       *)
(***************************************************************************)
\* C17: a call whose audit write failed (the write comes after the call's
\* mutation has been persisted) has returned normally all the same, and a
\* processSalaryPayment call has sent its notification.
C17_AuditFailureNotPropagated ==
    last.audit = "failed" =>
        /\ last.res = Ok
        /\ last.op = "processSalaryPayment" => last.mail

\* C18: every stored salary record has presentDays + absentDays <= workingDays
\* after any createSalary or updateSalary; a createSalary whose day counts
\* exceed the working days, and an updateSalary whose merged day counts do,
\* persists nothing and fails with BadRequest (createSalary for an unknown
\* employee fails with NotFound before the days are looked at).
DaysWithin(rec) == rec.presentDays + rec.absentDays <= rec.workingDays

C19_PaidStampsProcessed ==
    [][(/\ last'.op = "updateSalaryStatus"
        /\ last'.res = Ok
        /\ last'.args[1] = "paid"
        /\ FindSalary(DB, last'.id) # Null
        /\ FindSalary(DB, last'.id).status # "paid"
        /\ salaries'[last'.id] # Null
        /\ salaries'[last'.id].status = "paid")
       => /\ salaries'[last'.id].processedBy = last'.args[2]
          /\ salaries'[last'.id].processedAt]_vars

\* C20: an updateSalaryStatus on a stored record emits the payment
\* notification if and only if the new status is paid and the status before
\* the call was not paid (the record being stored as paid by the call); a
\* repeated updateSalaryStatus(paid) on a paid record emits none.
C20_NotificationIffIntoPaid ==
    [][(last'.op = "updateSalaryStatus" /\ FindSalary(DB, last'.id) # Null)
       => (last'.mail <=>
              /\ last'.args[1] = "paid"
              /\ FindSalary(DB, last'.id).status # "paid"
              /\ salaries'[last'.id] # Null
              /\ salaries'[last'.id].status = "paid")]_vars

(***************************************************************************)
(* Claims on what changes a leave balance.                                 *)
(***************************************************************************)
SameCounters(b1, b2) ==
    \A t \in BalanceKeys :
        b1[t].used = b2[t].used /\ b1[t].remaining = b2[t].remaining

\* C22: the used and remaining counters of an existing leave balance change
\* only in an approveLeave of a casual, sick or paid request and in a
\* cancelLeave of an approved casual, sick or paid request; applyLeave,
\* rejectLeave, cancelLeave of a pending request, getLeaveBalance and every
\* operation on an unpaid request leave the counters of all existing
\* balances as they were.
C22_CountersChangeOnlyOnApproveCancel ==
    [][\A k \in StoredBalances :
          ~SameCounters(balances[k], balances'[k])
          => /\ last'.op \in {"approveLeave", "cancelLeave"}
             /\ FindLeave(leaves, last'.id) # Null
             /\ leaves[last'.id].leaveType \in BalanceKeys
             /\ last'.op = "cancelLeave" => leaves[last'.id].status = "approved"]_vars

\* A rejectLeave has returned and the balance of the request's owner, debited
\* by an earlier approval, is stored.
C22_Witness ==
    /\ last.op = "rejectLeave"
    /\ last.res = Ok
    /\ \E k \in StoredBalances :
          /\ k[1] = leaves[last.id].userId
          /\ \E t \in BalanceKeys : balances[k][t].used > 0

(***************************************************************************)
(* Claims on handlers that run at the same time.                           *)
(***************************************************************************)
\* C21: a salary record is paid at most once, also when two
\* processSalaryPayment calls on it run at the same time: the save of a
\* processSalaryPayment call succeeds (and its SALARY_PAID entry and its
\* notification follow) only on a record that is not stored as paid, and a
\* call that finds the record paid goes no further than its lookup.
C21_PaidAtMostOnce ==
    [][/\ \A s \in Slots :
            (/\ calls[s] # Idle
             /\ calls[s].op = "processSalaryPayment"
             /\ calls[s].pc = "save"
             /\ calls'[s] # Idle
             /\ calls'[s].pc = "audit")
            => salaries[calls[s].id].status # "paid"
       /\ \A s \in Slots :
            (/\ calls[s] = Idle
             /\ calls'[s] # Idle
             /\ calls'[s].op = "processSalaryPayment")
            => salaries[calls'[s].id].status # "paid"]_vars

\* C23: getLeaveBalance and applyLeave create a balance, with casual 12,
\* sick 10, paid 15 and nothing used, only when none is stored for the
\* (employee, year), and leave a stored balance as it is; an insert goes
\* through only while no balance of its (employee, year) is stored, so that
\* there is at most one, also when two calls have both found none; a stored
\* balance is never deleted.
FreshBalance ==
    [casual |-> [total |-> 24, used |-> 0, remaining |-> 24],
     sick   |-> [total |-> 20, used |-> 0, remaining |-> 20],
     paid   |-> [total |-> 30, used |-> 0, remaining |-> 30]]

CreateKey(c) ==
    <<c.userId, IF c.op = "getLeaveBalance" /\ c.year # 0 THEN c.year ELSE ThisYear>>

C23_OneBalancePerEmployeeYear ==
    [][/\ \A k \in DOMAIN balances :
            IF balances[k] # Null
            THEN balances'[k] = balances[k]
            ELSE balances'[k] # Null => balances'[k] = FreshBalance
       /\ \A s \in Slots :
            (/\ calls[s] # Idle
             /\ calls[s].pc = "createBalance"
             /\ calls'[s] # calls[s]
             /\ ~(calls'[s] = Idle
                   /\ last'.res.kind \in {"MongoServerError", "ValidationError"}))
            => /\ balances[CreateKey(calls[s])] = Null
               /\ balances'[CreateKey(calls[s])] = FreshBalance]_vars

\* Two calls found no balance; one has created it and the insert of the
\* other has been refused.
C23_Witness ==
    /\ last.op \in {"getLeaveBalance", "applyLeave"}
    /\ last.res = Err("MongoServerError", "duplicateKey")
    /\ balances[<<last.args[1], ThisYear>>] = FreshBalance

\* The total of totalDays over the requests of an employee and a leave type
\* that are approved and start in a year.
RECURSIVE ApprovedDays(_, _, _, _)
ApprovedDays(ls, userId, t, year) ==
    IF ls = <<>> THEN 0
    ELSE (IF /\ Head(ls).userId = userId
             /\ Head(ls).leaveType = t
             /\ Head(ls).status = "approved"
             /\ FullYear(Head(ls).startDate) = year
          THEN Head(ls).totalDays ELSE 0)
         + ApprovedDays(Tail(ls), userId, t, year)

Quiescent == \A s \in Slots : calls[s] = Idle

\* C24: no debit or credit is lost when approveLeave and cancelLeave calls
\* on requests of one employee, year and leave type interleave their
\* read-balance and save-balance steps: once the calls have returned, the
\* used counter of e1's casual leave, 0 at first, is the total of the
\* requests approved and not cancelled since.
C24_NoLostUpdate ==
    (Quiescent /\ balances[<<"e1", ThisYear>>] # Null)
    => balances[<<"e1", ThisYear>>].casual.used
         = ApprovedDays(leaves, "e1", "casual", ThisYear)

\* C25: a leave request is reviewed once, also when two reviewers call
\* approveLeave or rejectLeave on it at the same time: a review writes its
\* decision (and goes on to the debit and the audit entry) only on a request
\* that is stored as pending.
C25_ReviewedOnce ==
    [][\A s \in Slots :
          (/\ calls[s] # Idle
           /\ calls[s].op \in {"approveLeave", "rejectLeave"}
           /\ calls[s].pc = "saveLeave"
           /\ calls'[s] # calls[s])
          => leaves[calls[s].id].status = "pending"]_vars

(***************************************************************************)
(* Claims on the consistency of the leave ledger.                          *)
(***************************************************************************)
\* C26: whenever no call is in progress, for every employee, year and leave
\* type among casual, sick and paid, the used counter of the balance is the
\* total of totalDays over the employee's approved requests of that type
\* that start in that year; without a balance document that total is 0.
C26_LedgerConsistency ==
    Quiescent =>
        \A k \in DOMAIN balances : \A t \in BalanceKeys :
            (IF balances[k] = Null THEN 0 ELSE balances[k][t].used)
                = ApprovedDays(leaves, k[1], t, k[2])

\* C27: in every reachable state, also after applyLeave calls of one
\* employee that ran at the same time, no two requests of an employee that
\* are both pending or approved have intersecting [startDate, endDate].
C27_NoActiveOverlap ==
    \A i, j \in 1..Len(leaves) :
        (/\ i < j
         /\ leaves[i].userId = leaves[j].userId
         /\ leaves[i].status \in {"pending", "approved"}
         /\ leaves[j].status \in {"pending", "approved"})
        => (leaves[i].endDate < leaves[j].startDate
            \/ leaves[j].endDate < leaves[i].startDate)

\* C28: a cancelLeave by the owner of a request that is pending or approved
\* ends with the request stored as cancelled, and succeeds (unless its own
\* audit write is refused), in every reachable state; it never fails with
\* the request left approved.
C28_OwnerCancelSucceeds ==
    [][(/\ last'.op = "cancelLeave"
        /\ FindLeave(leaves, last'.id) # Null
        /\ leaves[last'.id].userId = last'.args[1]
        /\ leaves[last'.id].status \in {"pending", "approved"})
       => /\ leaves'[last'.id].status = "cancelled"
          /\ last'.audit # "failed" => last'.res = Ok]_vars

\* C29: an applyLeave of any leave type of the data model, with a start date
\* not in the past, an end date not before it, the half-day period given for
\* a half day, no overlapping active request and a balance of the current
\* year that is missing or untouched, either stores a pending request or
\* fails with BadRequest (the refusal of its own audit write apart); a
\* maternity or paternity application ends in no other error.
C29_ApplyEndsOkOrBadRequest ==
    [][(/\ last'.op = "applyLeave"
        /\ last'.args[2] \in LeaveTypes
        /\ last'.args[3] >= Today
        /\ last'.args[4] >= last'.args[3]
        /\ ~FindOverlap(leaves, last'.args[1], last'.args[3], last'.args[4])
        /\ BalanceOf(balances, last'.args[1], ThisYear) \in {Null, FreshBalance}
        /\ last'.audit # "failed")
       => \/ /\ last'.res = Ok
             /\ Len(leaves') = Len(leaves) + 1
             /\ leaves'[last'.id].status = "pending"
             /\ leaves'[last'.id].leaveType = last'.args[2]
          \/ last'.res.kind = "BadRequest"]_vars

(***************************************************************************)
(* Claims on the payment fields of a paid salary record.                   *)
(***************************************************************************)
\* C30: in every reachable state, every salary record with status paid has
\* its paymentMethod and its actualCreditDate set, whichever sequence of
\* updateSalaryStatus and processSalaryPayment calls made it paid.
C30_PaidHasPaymentFields ==
    \A i \in 1..Len(salaries) :
        (salaries[i] # Null /\ salaries[i].status = "paid")
        => /\ salaries[i].paymentMethod \in PaymentMethods
           /\ salaries[i].actualCreditDate

====
